---- MODULE Spec2Model ----
(***************************************************************************)
(* shouldupdate: a version store (application name -> recorded version,    *)
(* kept in a TOML file) and a release lookup (one GET against the GitHub   *)
(* releases API).                                                          *)
(*                                                                         *)
(* Go strings are modelled as sequences of one-character strings, so that  *)
(* strings.Contains, strings.TrimPrefix, the TOML quoting rules and Go's   *)
(* bytewise string order are computed character by character.              *)
(***************************************************************************)
EXTENDS Integers, Sequences, FiniteSets, TLC

VARIABLES
    file,       \* the backing file: [exists |-> BOOLEAN, data |-> its text]
    mode,       \* permission bits of the backing file: "rw", "ro" or "none"
    dir,        \* "ok", or "blocked": the config directory is missing and cannot be created
    out,        \* what the last operation reported to its caller or to the terminal
    hist,       \* the last saveConfig call and the loadConfig call that followed it
    call,       \* arguments and network answer of the last Release Lookup call
    res,        \* result of the last Release Lookup call
    procs       \* invocations of the program running at the same time

vars == <<file, mode, dir, out, hist, call, res, procs>>

----------------------------------------------------------------------------
(* Strings *)

\* Byte value of each character the model uses (Go compares strings bytewise).
Code(c) ==
    CASE c = "\n" -> 10
      [] c = " "  -> 32
      [] c = "\"" -> 34
      [] c = "/"  -> 47
      [] c = "0"  -> 48
      [] c = "1"  -> 49
      [] c = "2"  -> 50
      [] c = "="  -> 61
      [] c = "\\" -> 92
      [] c = "a"  -> 97
      [] c = "c"  -> 99
      [] c = "n"  -> 110
      [] c = "v"  -> 118
      [] c = "DEL" -> 127

\* strings.Contains(s, c) for a one-character c
Contains(s, c) == \E i \in 1..Len(s) : s[i] = c

\* strings.TrimLeft(s, c) in the place of TrimPrefix: every leading c goes
RECURSIVE TrimLeft(_, _)
TrimLeft(s, c) == IF Len(s) >= 1 /\ s[1] = c THEN TrimLeft(Tail(s), c) ELSE s

\* strings.TrimPrefix(s, c) for a one-character prefix c
TrimPrefix(s, c) == IF Len(s) >= 1 /\ s[1] = c THEN Tail(s) ELSE s

\* number of occurrences of c in s
Count(s, c) == Cardinality({i \in 1..Len(s) : s[i] = c})

\* Go's s < t on strings
StrLess(s, t) ==
    \E i \in 1..(Len(s) + 1) :
        /\ \A j \in 1..(i - 1) : j <= Len(t) /\ s[j] = t[j]
        /\ \/ i = Len(s) + 1 /\ Len(t) >= i
           \/ i <= Len(s) /\ i <= Len(t) /\ Code(s[i]) < Code(t[i])

----------------------------------------------------------------------------
(* Release Lookup: JSON bodies *)

\* A response body is a sequence of JSON tokens [t |-> kind, s |-> text]:
\* "{", "}", ":", ",", a string "str", a number "num", the literal "null", or
\* "text" for anything that is not JSON (the plain text http.Error writes).
Tok(t) == [t |-> t, s |-> <<>>]
TokStr(s) == [t |-> "str", s |-> s]

TagNameKey == <<"t", "a", "g", "_", "n", "a", "m", "e">>
NameKey == <<"n", "a", "m", "e">>
BodyKey == <<"b", "o", "d", "y">>
HTMLURLKey == <<"h", "t", "m", "l", "_", "u", "r", "l">>
MessageKey == <<"m", "e", "s", "s", "a", "g", "e">>
DocumentationURLKey ==
    <<"d", "o", "c", "u", "m", "e", "n", "t", "a", "t", "i", "o", "n", "_", "u", "r", "l">>

\* The fields json.Decode fills in the two destination structs.
GitHubReleaseInfo == {TagNameKey, NameKey, BodyKey, HTMLURLKey}
ghError == {MessageKey, DocumentationURLKey}

\* Members the modelled API may put in a body: [k |-> key, v |-> value token].
Member(k, v) == [k |-> k, v |-> v]
MemberPool ==
    {Member(TagNameKey, TokStr(s)) : s \in {<<>>, <<"v">>, <<"v", "v", "1">>, <<"1">>}}
    \cup {Member(TagNameKey, Tok("num")), Member(NameKey, TokStr(<<"1">>))}
    \cup {Member(MessageKey, TokStr(s)) : s \in {<<>>, <<"n">>}}
    \cup {Member(DocumentationURLKey, TokStr(s)) : s \in {<<>>, <<"a">>}}

\* Most members in one body.
MaxMembers == 2

RECURSIVE SeqsUpTo(_, _)
SeqsUpTo(S, n) ==
    IF n = 0 THEN {<<>>}
    ELSE LET P == SeqsUpTo(S, n - 1)
         IN  P \cup {Append(p, x) : p \in {q \in P : Len(q) = n - 1}, x \in S}

\* The JSON text of an object with the members ms, as tokens.
RECURSIVE RenderMembers(_)
RenderMembers(ms) ==
    IF ms = <<>> THEN <<>>
    ELSE <<TokStr(Head(ms).k), Tok(":"), Head(ms).v>>
         \o (IF Len(ms) > 1 THEN <<Tok(",")>> ELSE <<>>)
         \o RenderMembers(Tail(ms))

Render(ms) == <<Tok("{")>> \o RenderMembers(ms) \o <<Tok("}")>>

\* Bodies a server may answer with: every object over the pool, whole or cut
\* off anywhere (a truncated body), and a body that is not JSON at all.
Bodies ==
    UNION {{SubSeq(r, 1, n) : n \in 0..Len(r)} :
              r \in {Render(ms) : ms \in SeqsUpTo(MemberPool, MaxMembers)}}
    \cup {<<Tok("text")>>}

\* encoding/json reading one object from the token stream: the members in
\* order, or failure on anything that is not a complete object.
RECURSIVE ParseMembers(_, _, _)
ParseMembers(toks, i, acc) ==
    IF i + 3 > Len(toks) THEN [ok |-> FALSE, members |-> <<>>]
    ELSE IF toks[i].t # "str" \/ toks[i + 1].t # ":"
            \/ toks[i + 2].t \notin {"str", "num", "null"}
         THEN [ok |-> FALSE, members |-> <<>>]
    ELSE LET acc2 == Append(acc, Member(toks[i].s, toks[i + 2]))
         IN  IF toks[i + 3].t = "}" THEN [ok |-> TRUE, members |-> acc2]
             ELSE IF toks[i + 3].t = "," THEN ParseMembers(toks, i + 4, acc2)
             ELSE [ok |-> FALSE, members |-> <<>>]

ParseObject(toks) ==
    IF Len(toks) < 2 \/ toks[1].t # "{" THEN [ok |-> FALSE, members |-> <<>>]
    ELSE IF toks[2].t = "}" THEN [ok |-> TRUE, members |-> <<>>]
    ELSE ParseMembers(toks, 2, <<>>)

\* json.NewDecoder(body).Decode(&struct) for a struct of string fields:
\* a later duplicate of a key wins, null leaves the field at "", unknown keys
\* are ignored, and a non-string value for a known field is an error.
JSONDecode(body, fields) ==
    LET p == ParseObject(body)
        Hits(k) == {i \in 1..Len(p.members) : p.members[i].k = k}
        Last(k) == p.members[CHOOSE i \in Hits(k) : \A j \in Hits(k) : j <= i].v
    IN  IF ~p.ok THEN [ok |-> FALSE, val |-> [k \in fields |-> <<>>]]
        ELSE IF \E k \in fields : \E i \in Hits(k) : p.members[i].v.t = "num"
             THEN [ok |-> FALSE, val |-> [k \in fields |-> <<>>]]
        ELSE [ok |-> TRUE,
              val |-> [k \in fields |->
                         IF Hits(k) # {} /\ Last(k).t = "str" THEN Last(k).s ELSE <<>>]]

----------------------------------------------------------------------------
(* Release Lookup: getLatestVersionGitHubImpl *)

StatusOK == 200

DefaultBaseURL == "https://api.github.com"

\* fmt.Sprintf("%s/repos/%s/releases/latest", baseURL, appIdentifier)
URLOf(baseURL, appIdentifier) == [base |-> baseURL, id |-> appIdentifier]
NoURL == URLOf("", <<>>)

\* http.NewRequest("GET", url, nil) fails exactly when url.Parse does: here,
\* on a URL that starts with ':' (missing protocol scheme) and on a URL that
\* holds an ASCII control character.
NewRequestFails(url) == url.base = ":" \/ Contains(url.id, "DEL")

\* An error value: its kind is the fixed text of the message, parts names the
\* values formatted into the message, in order.
Err(kind, parts, id, status, msg, doc, url) ==
    [kind |-> kind, parts |-> parts, id |-> id, status |-> status,
     msg |-> msg, doc |-> doc, url |-> url]
NoErr == Err("nil", <<>>, <<>>, 0, <<>>, <<>>, NoURL)

\* (version, error) of a call, with the requests client.Do was given.
Return(version, err, sent) == [version |-> version, err |-> err, sent |-> sent]

\* any 2xx status taken for success
IsStatus2xx(status) == status \in 200..299

\* resp.StatusCode != http.StatusOK, negated
IsStatusOK(status) == status = StatusOK

\* The non-200 branch: the message built in errorMsg.
APIError(appIdentifier, url, net) ==
    LET d == JSONDecode(net.body, ghError)
        Message == d.val[MessageKey]
        DocumentationURL == d.val[DocumentationURLKey]
    IN  IF d.ok /\ Message # <<>>
        THEN IF DocumentationURL # <<>>
             THEN Err("GitHub API error", <<"id", "status", "msg", "doc">>,
                      appIdentifier, net.status, Message, DocumentationURL, NoURL)
             ELSE Err("GitHub API error", <<"id", "status", "msg">>,
                      appIdentifier, net.status, Message, <<>>, NoURL)
        ELSE Err("GitHub API error", <<"id", "status", "url">>,
                 appIdentifier, net.status, <<>>, <<>>, url)

\* the 200 branch without the check of an empty tag name
ReleaseOfUnchecked(appIdentifier, url, net) ==
    LET d == JSONDecode(net.body, GitHubReleaseInfo)
    IN  IF ~d.ok
        THEN Return(<<>>, Err("error decoding JSON response", <<"id", "url", "cause">>,
                              appIdentifier, 0, <<>>, <<>>, url), <<url>>)
        ELSE Return(TrimPrefix(d.val[TagNameKey], "v"), NoErr, <<url>>)

\* The 200 branch: decode, require a tag name, trim one leading "v".
ReleaseOf(appIdentifier, url, net) ==
    LET d == JSONDecode(net.body, GitHubReleaseInfo)
        TagName == d.val[TagNameKey]
    IN  IF ~d.ok
        THEN Return(<<>>, Err("error decoding JSON response", <<"id", "url", "cause">>,
                              appIdentifier, 0, <<>>, <<>>, url), <<url>>)
        ELSE IF TagName = <<>>
        THEN Return(<<>>, Err("no version tag (tag_name) found", <<"id", "url">>,
                              appIdentifier, 0, <<>>, <<>>, url), <<url>>)
        ELSE Return(TrimPrefix(TagName, "v"), NoErr, <<url>>)

\* client.Do tried a second time after a transport failure
DoWithRetry(appIdentifier, url, net) ==
    IF net.transport = "fail"
    THEN Return(<<>>, Err("network error fetching release info", <<"id", "url", "cause">>,
                          appIdentifier, 0, <<>>, <<>>, url), <<url, url>>)
    ELSE IF ~IsStatusOK(net.status)
    THEN Return(<<>>, APIError(appIdentifier, url, net), <<url>>)
    ELSE ReleaseOf(appIdentifier, url, net)

\* client.Do(req) and what follows it. net is what the network does with the
\* request: [transport |-> "ok" or "fail", status |-> n, body |-> tokens].
Do(appIdentifier, url, net) ==
    IF net.transport = "fail"
    THEN Return(<<>>, Err("network error fetching release info", <<"id", "url", "cause">>,
                          appIdentifier, 0, <<>>, <<>>, url), <<url>>)
    ELSE IF ~IsStatusOK(net.status)
    THEN Return(<<>>, APIError(appIdentifier, url, net), <<url>>)
    ELSE ReleaseOf(appIdentifier, url, net)

\* The calls that pass the identifier check: build the URL and the request.
Fetch(appIdentifier, apiBaseURL, net) ==
    LET baseURL == IF apiBaseURL # "" THEN apiBaseURL ELSE DefaultBaseURL
        url == URLOf(baseURL, appIdentifier)
    IN  IF NewRequestFails(url)
        THEN Return(<<>>, Err("internal error creating request", <<"id", "cause">>,
                              appIdentifier, 0, <<>>, <<>>, NoURL), <<>>)
        ELSE Do(appIdentifier, url, net)

\* the lookup without the identifier check
getLatestVersionUnchecked(appIdentifier, apiBaseURL, net) ==
    Fetch(appIdentifier, apiBaseURL, net)

getLatestVersionGitHubImpl(appIdentifier, apiBaseURL, net) ==
    IF ~Contains(appIdentifier, "/")
    THEN Return(<<>>, Err("invalid application identifier", <<"id">>,
                          appIdentifier, 0, <<>>, <<>>, NoURL), <<>>)
    ELSE Fetch(appIdentifier, apiBaseURL, net)

\* Inputs of a lookup.
Identifiers ==
    {<<>>, <<"a">>, <<"a", "c">>, <<"/">>, <<"a", "/", "c">>, <<"a", "/", "c", "/", "a">>,
     <<"/", "/">>, <<"a", "/", "DEL">>}
APIBases == {"", "http://127.0.0.1:8080", ":"}
Statuses == {200, 201, 404}
Nets ==
    {[transport |-> "fail", status |-> 0, body |-> <<>>]}
    \cup {[transport |-> "ok", status |-> st, body |-> b] : st \in Statuses, b \in Bodies}

Pending == Return(<<>>, Err("pending", <<>>, <<>>, 0, <<>>, <<>>, NoURL), <<>>)
NoCall == [id |-> <<>>, apiBase |-> "", net |-> [transport |-> "fail", status |-> 0, body |-> <<>>]]

----------------------------------------------------------------------------
(* Version Store: the TOML text of a Config *)

\* A Config (map[string]string) is a function from a finite set of names to
\* versions.
EmptyConfig == [k \in {} |-> <<>>]

\* Characters a TOML bare key may hold, among those the model uses.
BareChars == {"0", "1", "2", "a", "c", "n", "v"}

RECURSIVE EscapeStr(_)
EscapeStr(s) ==
    IF s = <<>> THEN <<>>
    ELSE (CASE Head(s) = "\"" -> <<"\\", "\"">>
            [] Head(s) = "\\" -> <<"\\", "\\">>
            [] Head(s) = "\n" -> <<"\\", "n">>
            [] OTHER -> <<Head(s)>>)
         \o EscapeStr(Tail(s))

\* a TOML basic string
Quoted(s) == <<"\"">> \o EscapeStr(s) \o <<"\"">>

\* a key is written bare when it can be, quoted otherwise (the empty key too)
EncodeKey(k) ==
    IF k # <<>> /\ \A i \in 1..Len(k) : k[i] \in BareChars THEN k ELSE Quoted(k)

\* the keys of a map in ascending order, as the encoder writes them
RECURSIVE SortStrings(_)
SortStrings(S) ==
    IF S = {} THEN <<>>
    ELSE LET m == CHOOSE x \in S : \A y \in S \ {x} : StrLess(x, y)
         IN  <<m>> \o SortStrings(S \ {m})

RECURSIVE MarshalKeys(_, _)
MarshalKeys(config, keys) ==
    IF keys = <<>> THEN <<>>
    ELSE EncodeKey(Head(keys)) \o <<" ", "=", " ">> \o Quoted(config[Head(keys)]) \o <<"\n">>
         \o MarshalKeys(config, Tail(keys))

\* toml.Marshal(config): one `key = "value"` line per entry
Marshal(config) == MarshalKeys(config, SortStrings(DOMAIN config))

ParseFail == [ok |-> FALSE, val |-> <<>>, next |-> 0]

\* the rest of a basic string whose opening quote has been read
RECURSIVE ParseBasicString(_, _, _)
ParseBasicString(text, i, acc) ==
    IF i > Len(text) THEN ParseFail
    ELSE IF text[i] = "\"" THEN [ok |-> TRUE, val |-> acc, next |-> i + 1]
    ELSE IF text[i] = "\n" THEN ParseFail
    ELSE IF text[i] = "\\"
         THEN IF i + 1 > Len(text) THEN ParseFail
              ELSE IF text[i + 1] \in {"\"", "\\"}
                   THEN ParseBasicString(text, i + 2, Append(acc, text[i + 1]))
              ELSE IF text[i + 1] = "n"
                   THEN ParseBasicString(text, i + 2, Append(acc, "\n"))
              ELSE ParseFail
    ELSE ParseBasicString(text, i + 1, Append(acc, text[i]))

RECURSIVE ParseBareKey(_, _, _)
ParseBareKey(text, i, acc) ==
    IF i <= Len(text) /\ text[i] \in BareChars
    THEN ParseBareKey(text, i + 1, Append(acc, text[i]))
    ELSE IF acc = <<>> THEN ParseFail
    ELSE [ok |-> TRUE, val |-> acc, next |-> i]

ParseKey(text, i) ==
    IF i > Len(text) THEN ParseFail
    ELSE IF text[i] = "\"" THEN ParseBasicString(text, i + 1, <<>>)
    ELSE ParseBareKey(text, i, <<>>)

RECURSIVE SkipChars(_, _, _)
SkipChars(text, i, cs) ==
    IF i <= Len(text) /\ text[i] \in cs THEN SkipChars(text, i + 1, cs) ELSE i

\* the key/value lines of a document from position i on, added to config
RECURSIVE ParseLines(_, _, _)
ParseLines(text, i, config) ==
    LET start == SkipChars(text, i, {" ", "\n"})
        key == ParseKey(text, start)
        eq == SkipChars(text, key.next, {" "})
        open == SkipChars(text, eq + 1, {" "})
        value == ParseBasicString(text, open + 1, <<>>)
        end == SkipChars(text, value.next, {" "})
    IN  IF start > Len(text) THEN [ok |-> TRUE, config |-> config]
        ELSE IF ~key.ok \/ eq > Len(text) \/ text[eq] # "=" THEN [ok |-> FALSE, config |-> EmptyConfig]
        \* a value that is not a string cannot be stored in a map[string]string
        ELSE IF open > Len(text) \/ text[open] # "\"" THEN [ok |-> FALSE, config |-> EmptyConfig]
        ELSE IF ~value.ok THEN [ok |-> FALSE, config |-> EmptyConfig]
        ELSE IF end <= Len(text) /\ text[end] # "\n" THEN [ok |-> FALSE, config |-> EmptyConfig]
        \* a key may be defined once
        ELSE IF key.val \in DOMAIN config THEN [ok |-> FALSE, config |-> EmptyConfig]
        ELSE ParseLines(text, end + 1,
                        [k \in DOMAIN config \cup {key.val} |->
                            IF k = key.val THEN value.val ELSE config[k]])

\* toml.Unmarshal(data, &config)
Unmarshal(data) == ParseLines(data, 1, EmptyConfig)

----------------------------------------------------------------------------
(* Version Store: loadConfig and saveConfig *)

\* (Config, error) as loadConfig returns it; isNil says the Config is nil.
Loaded(config, isNil, err) == [config |-> config, isNil |-> isNil, err |-> err]
NoLoad == Loaded(EmptyConfig, TRUE, "none")

\* loadConfig without the os.Stat check: a missing file is a read error
loadConfigNoStat ==
    IF ~file.exists \/ mode = "none" THEN Loaded(EmptyConfig, TRUE, "could not read config file")
    ELSE LET u == Unmarshal(file.data)
         IN  IF ~u.ok THEN Loaded(EmptyConfig, TRUE, "could not parse config file")
             ELSE Loaded(u.config, FALSE, "nil")

\* loadConfig returning the map it was filling together with the error
loadConfigKeepsMap ==
    IF ~file.exists THEN Loaded(EmptyConfig, FALSE, "nil")
    ELSE IF mode = "none" THEN Loaded(EmptyConfig, FALSE, "could not read config file")
    ELSE LET u == Unmarshal(file.data)
         IN  IF ~u.ok THEN Loaded(EmptyConfig, FALSE, "could not parse config file")
             ELSE Loaded(u.config, FALSE, "nil")

\* os.Stat reports that the file does not exist: an empty Config, no error.
\* A file that is there is read (os.ReadFile fails on a file whose mode
\* grants no read access) and decoded.
loadConfig ==
    IF ~file.exists THEN Loaded(EmptyConfig, FALSE, "nil")
    ELSE IF mode = "none" THEN Loaded(EmptyConfig, TRUE, "could not read config file")
    ELSE LET u == Unmarshal(file.data)
         IN  IF ~u.ok THEN Loaded(EmptyConfig, TRUE, "could not parse config file")
             ELSE Loaded(u.config, FALSE, "nil")

\* saveConfig appending to the file in the place of rewriting it
saveConfigAppend(config) ==
    IF dir = "blocked"
    THEN [err |-> "could not create config directory", file |-> file, mode |-> mode]
    ELSE IF file.exists /\ mode # "rw"
    THEN [err |-> "could not write configuration to file", file |-> file, mode |-> mode]
    ELSE [err |-> "nil", file |-> [exists |-> TRUE, data |-> file.data \o Marshal(config)],
          mode |-> "rw"]

\* saveConfig(config): the error, and the file as the call leaves it.
\* toml.Marshal cannot fail on a map of strings. os.MkdirAll fails when the
\* directory cannot be created; os.WriteFile creates the file with mode 0644
\* or truncates and rewrites it, and fails on a file that is not writable.
Saved(err, f, m) == [err |-> err, file |-> f, mode |-> m]
saveConfig(config) ==
    LET data == Marshal(config)
    IN  IF dir = "blocked" THEN Saved("could not create config directory", file, mode)
        ELSE IF file.exists /\ mode # "rw"
             THEN Saved("could not write configuration to file", file, mode)
        ELSE Saved("nil", [exists |-> TRUE, data |-> data], "rw")

\* The last successful saveConfig(m) since the file was last touched from
\* outside, and the result of a loadConfig call made after it.
Hist(saved, m, loaded, ret) == [saved |-> saved, m |-> m, loaded |-> loaded, ret |-> ret]
NoHist == Hist(FALSE, EmptyConfig, FALSE, NoLoad)
HistAfterSave(s, config) == IF s.err = "nil" THEN Hist(TRUE, config, FALSE, NoLoad) ELSE hist

\* What an operation reported: the command, its arguments, the message
\* printed, the error inside the message, the old version an update names,
\* and (for a direct loadConfig call) the value returned. With it: the
\* number of saveConfig calls the operation made, the lines a list or a
\* check printed (one per application, in the order printed), the
\* identifiers getLatestVersion was called with, the command line, and the
\* exit status of the process.
Out(cmd, name, version, msg, err, old, ret) ==
    [cmd |-> cmd, name |-> name, version |-> version, msg |-> msg, err |-> err,
     old |-> old, ret |-> ret,
     saves |-> 0, report |-> <<>>, lookups |-> <<>>, args |-> <<>>, exit |-> 0]
\* the operation called saveConfig
WithSave(o) == [o EXCEPT !.saves = 1]

----------------------------------------------------------------------------
(* Commands *)

\* a fresh map holding the one entry, in the place of an update in place
UpsertAlone(config, appName, appVersion) == [k \in {appName} |-> appVersion]

\* config[appName] = appVersion
Upsert(config, appName, appVersion) ==
    [k \in DOMAIN config \cup {appName} |-> IF k = appName THEN appVersion ELSE config[k]]

\* a delete that leaves the map as it was
DeleteNothing(config, appName) == config

\* delete(config, appName)
Delete(config, appName) == [k \in DOMAIN config \ {appName} |-> config[k]]

Effect(f, m, o, h) == [file |-> f, mode |-> m, out |-> o, hist |-> h]

\* an add that goes on with an empty map when the store cannot be loaded
handleAddCmdIgnoresLoadError(appName, appVersion) ==
    LET l == loadConfig
        exists == appName \in DOMAIN l.config
        config == Upsert(l.config, appName, appVersion)
        s == saveConfig(config)
        msg == IF s.err # "nil" THEN "Could not save configuration"
               ELSE IF exists THEN "updated" ELSE "added"
    IN  Effect(s.file, s.mode,
               WithSave(Out("add", appName, appVersion, msg, s.err,
                            IF exists THEN l.config[appName] ELSE <<>>, NoLoad)),
               HistAfterSave(s, config))

handleAddCmd(appName, appVersion) ==
    LET l == loadConfig
        exists == appName \in DOMAIN l.config
        oldVersion == IF exists THEN l.config[appName] ELSE <<>>
        config == Upsert(l.config, appName, appVersion)
        s == saveConfig(config)
    IN  IF l.err # "nil"
        THEN Effect(file, mode,
                    Out("add", appName, appVersion, "Could not load configuration", l.err, <<>>, NoLoad),
                    hist)
        ELSE IF s.err # "nil"
        THEN Effect(s.file, s.mode,
                    WithSave(Out("add", appName, appVersion, "Could not save configuration", s.err, <<>>, NoLoad)),
                    HistAfterSave(s, config))
        ELSE IF exists
        THEN Effect(s.file, s.mode,
                    WithSave(Out("add", appName, appVersion, "updated", "nil", oldVersion, NoLoad)),
                    HistAfterSave(s, config))
        ELSE Effect(s.file, s.mode,
                    WithSave(Out("add", appName, appVersion, "added", "nil", <<>>, NoLoad)),
                    HistAfterSave(s, config))

\* a remove that saves the store also when the name is not in it
handleRemoveCmdSavesAnyway(appName) ==
    LET l == loadConfig
        config == Delete(l.config, appName)
        s == saveConfig(config)
        msg == IF s.err # "nil" THEN "Could not save configuration"
               ELSE IF appName \in DOMAIN l.config THEN "removed" ELSE "not found"
    IN  IF l.err # "nil"
        THEN Effect(file, mode,
                    Out("remove", appName, <<>>, "Could not load configuration", l.err, <<>>, NoLoad),
                    hist)
        ELSE Effect(s.file, s.mode,
                    WithSave(Out("remove", appName, <<>>, msg, s.err, <<>>, NoLoad)),
                    HistAfterSave(s, config))

handleRemoveCmd(appName) ==
    LET l == loadConfig
        config == Delete(l.config, appName)
        s == saveConfig(config)
    IN  IF l.err # "nil"
        THEN Effect(file, mode,
                    Out("remove", appName, <<>>, "Could not load configuration", l.err, <<>>, NoLoad),
                    hist)
        ELSE IF appName \notin DOMAIN l.config
        THEN Effect(file, mode,
                    Out("remove", appName, <<>>, "not found", "nil", <<>>, NoLoad),
                    hist)
        ELSE IF s.err # "nil"
        THEN Effect(s.file, s.mode,
                    WithSave(Out("remove", appName, <<>>, "Could not save configuration", s.err, <<>>, NoLoad)),
                    HistAfterSave(s, config))
        ELSE Effect(s.file, s.mode,
                    WithSave(Out("remove", appName, <<>>, "removed", "nil", <<>>, NoLoad)),
                    HistAfterSave(s, config))

\* handleListCmd printing the names in descending order
RECURSIVE ListLinesDescending(_, _)
ListLinesDescending(config, names) ==
    IF names = <<>> THEN <<>>
    ELSE Append(ListLinesDescending(config, Tail(names)),
                [name |-> Head(names), version |-> config[Head(names)]])

\* The names of the store, sorted by sort.Strings.
SortedAppNames(config) == SortStrings(DOMAIN config)

\* "  - Application: <name>, Version: <version>", one line per name in order
RECURSIVE ListLines(_, _)
ListLines(config, names) ==
    IF names = <<>> THEN <<>>
    ELSE <<[name |-> Head(names), version |-> config[Head(names)]]>>
         \o ListLines(config, Tail(names))

handleListCmd ==
    LET l == loadConfig
    IN  IF l.err # "nil"
        THEN Effect(file, mode,
                    Out("list", <<>>, <<>>, "Could not load configuration", l.err, <<>>, NoLoad),
                    hist)
        ELSE IF Cardinality(DOMAIN l.config) = 0
        THEN Effect(file, mode,
                    Out("list", <<>>, <<>>, "No applications currently managed", "nil", <<>>, NoLoad),
                    hist)
        ELSE Effect(file, mode,
                    [Out("list", <<>>, <<>>, "Managed Applications", "nil", <<>>, NoLoad)
                        EXCEPT !.report = ListLines(l.config, SortedAppNames(l.config))],
                    hist)

\* var getLatestVersion = getLatestVersionGitHubImpl
getLatestVersion(appIdentifier, apiBaseURL, net) ==
    getLatestVersionGitHubImpl(appIdentifier, apiBaseURL, net)

\* a comparison that puts a shorter version before a longer one
VerdictByLength(currentVersion, latestVersion) ==
    IF latestVersion = currentVersion THEN "Up to date"
    ELSE IF \/ Len(latestVersion) > Len(currentVersion)
            \/ /\ Len(latestVersion) = Len(currentVersion)
               /\ StrLess(currentVersion, latestVersion)
         THEN "Update Available!"
    ELSE "Version discrepancy"

\* latestVersion == currentVersion, then latestVersion > currentVersion
Verdict(currentVersion, latestVersion) ==
    IF latestVersion = currentVersion THEN "Up to date"
    ELSE IF StrLess(currentVersion, latestVersion) THEN "Update Available!"
    ELSE "Version discrepancy"

\* What a check printed for one application, and the identifiers it called
\* getLatestVersion with.
CheckLine(name, version, outcome, latest, err) ==
    [name |-> name, version |-> version, outcome |-> outcome, latest |-> latest, err |-> err]
Checked(line, lookups) == [line |-> line, lookups |-> lookups]

\* What checkAppVersion prints once getLatestVersion has returned r.
VersionLine(appName, currentVersion, r) ==
    IF r.err # NoErr
    THEN Checked(CheckLine(appName, currentVersion, "failed", <<>>, r.err), <<appName>>)
    ELSE Checked(CheckLine(appName, currentVersion, Verdict(currentVersion, r.version),
                           r.version, NoErr),
                 <<appName>>)

\* checkAppVersion calling the lookup for a name of any form
checkAppVersionAnyFormat(appName, currentVersion, net) ==
    VersionLine(appName, currentVersion, getLatestVersion(appName, "", net))

\* net is what the network answers if the lookup sends its request.
checkAppVersion(appName, currentVersion, net) ==
    IF ~Contains(appName, "/")
    THEN Checked(CheckLine(appName, currentVersion, "skipped", <<>>, NoErr), <<>>)
    ELSE VersionLine(appName, currentVersion, getLatestVersion(appName, "", net))

\* The network as a check finds it: an answer for every name it may ask
\* about, and no response for any other.
FailNet == [transport |-> "fail", status |-> 0, body |-> <<>>]
NetFor(answers, appName) ==
    IF appName \in DOMAIN answers THEN answers[appName] ELSE FailNet

\* a loop over the store that ends at the first failed lookup
RECURSIVE CheckAllUntilFailure(_, _, _)
CheckAllUntilFailure(order, config, answers) ==
    IF order = <<>> THEN [report |-> <<>>, lookups |-> <<>>]
    ELSE LET c == checkAppVersion(Head(order), config[Head(order)],
                                  NetFor(answers, Head(order)))
             rest == IF c.line.outcome = "failed" THEN [report |-> <<>>, lookups |-> <<>>]
                     ELSE CheckAllUntilFailure(Tail(order), config, answers)
         IN  [report |-> <<c.line>> \o rest.report, lookups |-> c.lookups \o rest.lookups]

\* for appName, currentVersion := range config { checkAppVersion(...) }
\* order is the order in which the range statement yields the keys.
RECURSIVE CheckAll(_, _, _)
CheckAll(order, config, answers) ==
    IF order = <<>> THEN [report |-> <<>>, lookups |-> <<>>]
    ELSE LET c == checkAppVersion(Head(order), config[Head(order)],
                                  NetFor(answers, Head(order)))
             rest == CheckAll(Tail(order), config, answers)
         IN  [report |-> <<c.line>> \o rest.report, lookups |-> c.lookups \o rest.lookups]

\* a check that writes the latest versions it fetched into the store
handleCheckCmdRecording(specificApp, order, answers) ==
    LET l == loadConfig
        all == CheckAll(order, l.config, answers)
        fetched(n) == {i \in 1..Len(all.report) :
                          all.report[i].name = n /\ all.report[i].err = NoErr
                                                 /\ all.report[i].outcome # "skipped"}
        latest == [n \in DOMAIN l.config |->
                      IF fetched(n) = {} THEN l.config[n]
                      ELSE all.report[CHOOSE i \in fetched(n) : TRUE].latest]
        s == saveConfig(latest)
    IN  IF l.err # "nil"
        THEN Effect(file, mode,
                    Out("check", specificApp, <<>>, "Could not load configuration", l.err, <<>>, NoLoad),
                    hist)
        ELSE Effect(s.file, s.mode,
                    WithSave([Out("check", specificApp, <<>>, "Checking all managed applications", s.err, <<>>, NoLoad)
                                 EXCEPT !.report = all.report, !.lookups = all.lookups]),
                    HistAfterSave(s, latest))

handleCheckCmd(specificApp, order, answers) ==
    LET l == loadConfig
        one == checkAppVersion(specificApp, l.config[specificApp],
                               NetFor(answers, specificApp))
        all == CheckAll(order, l.config, answers)
    IN  IF l.err # "nil"
        THEN Effect(file, mode,
                    Out("check", specificApp, <<>>, "Could not load configuration", l.err, <<>>, NoLoad),
                    hist)
        ELSE IF Cardinality(DOMAIN l.config) = 0
        THEN Effect(file, mode,
                    Out("check", specificApp, <<>>, "No applications currently managed", "nil", <<>>, NoLoad),
                    hist)
        ELSE IF specificApp # <<>>
        THEN IF specificApp \notin DOMAIN l.config
             THEN Effect(file, mode,
                         Out("check", specificApp, <<>>, "not found in your managed list", "nil", <<>>, NoLoad),
                         hist)
             ELSE Effect(file, mode,
                         [Out("check", specificApp, <<>>, "", "nil", <<>>, NoLoad)
                             EXCEPT !.report = <<one.line>>, !.lookups = one.lookups],
                         hist)
        ELSE Effect(file, mode,
                    [Out("check", specificApp, <<>>, "Checking all managed applications", "nil", <<>>, NoLoad)
                        EXCEPT !.report = all.report, !.lookups = all.lookups],
                    hist)

\* The words main compares os.Args[1] with.
AddWord == <<"a", "d", "d">>
RemoveWord == <<"r", "e", "m", "o", "v", "e">>
ListWord == <<"l", "i", "s", "t">>
CheckWord == <<"c", "h", "e", "c", "k">>

\* an argument check that lets list take arguments
ArgCountOKLax(cmd, n) ==
    CASE cmd = AddWord -> n >= 2
      [] cmd = RemoveWord -> n >= 1
      [] cmd = ListWord -> TRUE
      [] cmd = CheckWord -> n <= 1
      [] OTHER -> FALSE

\* The tests main makes on len(<cmd>.Args()) before it calls the handler.
ArgCountOK(cmd, n) ==
    CASE cmd = AddWord -> n >= 2
      [] cmd = RemoveWord -> n >= 1
      [] cmd = ListWord -> ~(n > 0)
      [] cmd = CheckWord -> ~(n > 1)
      [] OTHER -> FALSE

\* flag.FlagSet.Parse(arguments) of a flag set that defines no flag. Only
\* the first argument is looked at: one that is not of the form of a flag
\* leaves every argument positional, "--" ends the flags and is dropped, -h
\* and -help (one or two minuses, with or without "=value") ask for help,
\* and anything else is an error.
FlagName(s) ==
    LET body == IF s[2] = "-" THEN SubSeq(s, 3, Len(s)) ELSE Tail(s)
        eqs == {i \in 1..Len(body) : body[i] = "="}
    IN  IF eqs = {} THEN body
        ELSE SubSeq(body, 1, (CHOOSE i \in eqs : \A k \in eqs : i <= k) - 1)
Parsed(err, args) == [err |-> err, args |-> args]
FlagParse(arguments) ==
    IF arguments = <<>> THEN Parsed("nil", arguments)
    ELSE LET s == Head(arguments)
         IN  IF Len(s) < 2 \/ s[1] # "-" THEN Parsed("nil", arguments)
             ELSE IF s = <<"-", "-">> THEN Parsed("nil", Tail(arguments))
             ELSE IF FlagName(s) = <<>> \/ FlagName(s)[1] = "-"
                  THEN Parsed("bad flag syntax", <<>>)
             ELSE IF FlagName(s) \in {<<"h">>, <<"h", "e", "l", "p">>}
                  THEN Parsed("flag: help requested", <<>>)
             ELSE Parsed("flag provided but not defined", <<>>)

\* main with os.Args[1:] = args. Every flag set is made with
\* flag.ExitOnError: a request for help prints the usage and exits with 0,
\* any other parse error prints the usage and exits with 2. A wrong number
\* of positional arguments prints an error and the usage and calls
\* os.Exit(1); otherwise the handler runs and main returns, which ends the
\* process with status 0. order and answers are what handleCheckCmd finds:
\* the order in which the range over the map yields its keys, and the
\* network.
main(args, order, answers) ==
    LET p == FlagParse(Tail(args))
        rest == p.args
        usage(msg, status) ==
            Effect(file, mode,
                   [Out("usage", <<>>, <<>>, msg, "nil", <<>>, NoLoad)
                       EXCEPT !.exit = status, !.args = args],
                   hist)
        run(e) == [e EXCEPT !.out.args = args]
    IN  IF Len(args) < 1 THEN usage("", 1)
        ELSE IF args[1] \notin {AddWord, RemoveWord, ListWord, CheckWord}
        THEN usage("Unknown command", 1)
        ELSE IF p.err = "flag: help requested" THEN usage(p.err, 0)
        ELSE IF p.err # "nil" THEN usage(p.err, 2)
        ELSE IF args[1] = AddWord
        THEN IF ~ArgCountOK(AddWord, Len(rest))
             THEN usage("Missing application name and/or version for 'add' command.", 1)
             ELSE run(handleAddCmd(rest[1], rest[2]))
        ELSE IF args[1] = RemoveWord
        THEN IF ~ArgCountOK(RemoveWord, Len(rest))
             THEN usage("Missing application name for 'remove' command.", 1)
             ELSE run(handleRemoveCmd(rest[1]))
        ELSE IF args[1] = ListWord
        THEN IF ~ArgCountOK(ListWord, Len(rest))
             THEN usage("'list' command does not take any arguments.", 1)
             ELSE run(handleListCmd)
        ELSE IF ~ArgCountOK(CheckWord, Len(rest))
             THEN usage("'check' command accepts at most one application name.", 1)
             ELSE run(handleCheckCmd(IF Len(rest) = 1 THEN rest[1] ELSE <<>>, order, answers))

----------------------------------------------------------------------------
(* Inputs and bounds *)

\* Names and versions given on the command line: the empty string, a bare
\* name, two owner/repo names, and strings with characters TOML must escape.
AppNames == {<<>>, <<"a">>, <<"a", "/", "c">>, <<"c", "/", "\"">>}
Versions == {<<"1">>, <<"2">>, <<"v", "\"", "\\">>}

\* Most applications the store holds.
MaxApps == 2

\* Texts put into the backing file by hand.
ValidTexts ==
    {<<>>,
     <<"a", "=", "\"", "1", "\"">>,
     <<"\n", " ", "a", " ", "=", " ", "\"", "1", "\"", " ", "\n", "\"", "a", "/", "c", "\"", "=", "\"", "2", "\"", "\n">>}
\* not TOML, or not a table of strings: a missing value, an integer value, an
\* unterminated string, a key defined twice, a missing key
InvalidTexts ==
    {<<"a", " ", "=", " ">>,
     <<"a", " ", "=", " ", "1", "\n">>,
     <<"a", " ", "=", " ", "\"", "1", "\n">>,
     <<"a", " ", "=", " ", "\"", "1", "\"", "\n", "a", " ", "=", " ", "\"", "2", "\"", "\n">>,
     <<"=", " ", "\"", "1", "\"", "\n">>}
ForeignTexts == ValidTexts \cup InvalidTexts

----------------------------------------------------------------------------
(* The store's state machine *)

NoOut == Out("none", <<>>, <<>>, "", "nil", <<>>, NoLoad)
NoProcs == [inv |-> <<>>, steps |-> <<>>]

Init ==
    /\ file = [exists |-> FALSE, data |-> <<>>]
    /\ mode = "rw"
    /\ dir = "ok"
    /\ out = NoOut
    /\ hist = NoHist
    /\ call = NoCall
    /\ res = Pending
    /\ procs = NoProcs

Apply(e) ==
    /\ file' = e.file
    /\ mode' = e.mode
    /\ out' = e.out
    /\ hist' = e.hist
    /\ UNCHANGED <<dir, call, res, procs>>

\* shouldupdate add <name> <version>
AddCmd(appName, appVersion) ==
    /\ LET l == loadConfig
       IN  l.err = "nil" => Cardinality(DOMAIN l.config \cup {appName}) <= MaxApps
    /\ Apply(handleAddCmd(appName, appVersion))

\* shouldupdate remove <name>
RemoveCmd(appName) ==
    /\ appName \in AppNames
    /\ Apply(handleRemoveCmd(appName))

\* shouldupdate list
ListCmd ==
    /\ Apply(handleListCmd)

\* a direct call of loadConfig()
LoadConfigCall ==
    /\ out' = Out("load", <<>>, <<>>, "", loadConfig.err, <<>>, loadConfig)
    /\ hist' = IF hist.saved THEN Hist(TRUE, hist.m, TRUE, loadConfig) ELSE hist
    /\ UNCHANGED <<file, mode, dir, call, res, procs>>

\* The environment: the user edits or deletes the file, changes its mode, or
\* makes the (missing) config directory impossible to create.
Touched(cmd) == out' = Out(cmd, <<>>, <<>>, "", "nil", <<>>, NoLoad) /\ hist' = NoHist

EditFile(text) ==
    /\ dir = "ok"
    /\ file' = [exists |-> TRUE, data |-> text]
    /\ mode' = IF file.exists THEN mode ELSE "rw"
    /\ Touched("edit")
    /\ UNCHANGED <<dir, call, res, procs>>

RemoveFile ==
    /\ file.exists
    /\ file' = [exists |-> FALSE, data |-> <<>>]
    /\ mode' = "rw"
    /\ Touched("rm")
    /\ UNCHANGED <<dir, call, res, procs>>

Chmod(m) ==
    /\ file.exists
    /\ mode # m
    /\ mode' = m
    /\ Touched("chmod")
    /\ UNCHANGED <<file, dir, call, res, procs>>

BlockDir ==
    /\ ~file.exists
    /\ dir = "ok"
    /\ dir' = "blocked"
    /\ Touched("blockdir")
    /\ UNCHANGED <<file, mode, call, res, procs>>

UnblockDir ==
    /\ dir = "blocked"
    /\ dir' = "ok"
    /\ Touched("unblockdir")
    /\ UNCHANGED <<file, mode, call, res, procs>>

Next ==
    \/ \E n \in AppNames, v \in Versions : AddCmd(n, v)
    \/ \E n \in AppNames : RemoveCmd(n)
    \/ ListCmd
    \/ LoadConfigCall
    \/ \E t \in ForeignTexts : EditFile(t)
    \/ RemoveFile
    \/ \E m \in {"rw", "ro", "none"} : Chmod(m)
    \/ BlockDir
    \/ UnblockDir

Spec == Init /\ [][Next]_vars

----------------------------------------------------------------------------
(* One call of Release Lookup *)

LookupInit ==
    /\ file = [exists |-> FALSE, data |-> <<>>]
    /\ mode = "rw"
    /\ dir = "ok"
    /\ out = NoOut
    /\ hist = NoHist
    /\ call \in [id : Identifiers, apiBase : APIBases, net : Nets]
    /\ res = Pending
    /\ procs = NoProcs

Lookup ==
    /\ res = Pending
    /\ res' = getLatestVersionGitHubImpl(call.id, call.apiBase, call.net)
    /\ UNCHANGED <<file, mode, dir, out, hist, call, procs>>

LookupNext == Lookup

LookupSpec == LookupInit /\ [][LookupNext]_vars

----------------------------------------------------------------------------
(* One invocation of the program *)

\* Most arguments after the subcommand.
MaxArgs == 3

\* Command lines: none, or a first word (a subcommand or something else)
\* followed by up to MaxArgs words. The word after the subcommand is the
\* empty string, a name, a request for help or a flag that is not defined;
\* the words after it are a name or a word of the form of a flag.
CmdWords == {AddWord, RemoveWord, ListWord, CheckWord}
ArgWords == {<<>>, <<"a", "/", "c">>, <<"-", "h">>, <<"-", "x">>}
LaterWords == {<<"a", "/", "c">>, <<"-", "h">>}
ArgLists ==
    {<<>>}
    \cup {<<c>> : c \in CmdWords \cup {<<"a">>}}
    \cup {<<c, w>> \o rest : c \in CmdWords \cup {<<"a">>}, w \in ArgWords,
                             rest \in SeqsUpTo(LaterWords, MaxArgs - 1)}

\* What the network may answer to a lookup made by a check: no response, a
\* 404 with a text body, or a release with one of three tags.
ReleaseNet(tag) ==
    [transport |-> "ok", status |-> StatusOK,
     body |-> Render(<<Member(TagNameKey, TokStr(tag))>>)]
CheckNets ==
    {FailNet, [transport |-> "ok", status |-> 404, body |-> <<Tok("text")>>]}
    \cup {ReleaseNet(tag) : tag \in {<<"v", "1">>, <<"2">>, <<"1", "0">>}}

\* The orders in which a range over a map may yield its keys: all of them.
Orders(S) ==
    {o \in SeqsUpTo(S, Cardinality(S)) :
        Len(o) = Cardinality(S) /\ \A i, j \in 1..Len(o) : i # j => o[i] # o[j]}

\* The stores an invocation may find.
RecordedVersions == {<<"1">>, <<"2">>}
Configs ==
    UNION {[S -> RecordedVersions] :
              S \in {T \in SUBSET AppNames : Cardinality(T) <= MaxApps}}
StoreFiles ==
    {[exists |-> FALSE, data |-> <<>>]}
    \cup {[exists |-> TRUE, data |-> Marshal(c)] : c \in Configs}
    \cup {[exists |-> TRUE, data |-> t] : t \in ForeignTexts}

MainInit ==
    /\ file \in StoreFiles
    /\ mode \in (IF file.exists THEN {"rw", "ro", "none"} ELSE {"rw"})
    /\ dir \in (IF file.exists THEN {"ok"} ELSE {"ok", "blocked"})
    /\ out = NoOut
    /\ hist = NoHist
    /\ call = NoCall
    /\ res = Pending
    /\ procs = NoProcs

\* One run of the program. Only a check that gets as far as the store looks
\* at the order of the map and at the network.
Main(args) ==
    /\ out = NoOut
    /\ IF /\ Len(args) >= 1
          /\ args[1] = CheckWord
          /\ FlagParse(Tail(args)).err = "nil"
          /\ loadConfig.err = "nil"
       THEN LET config == loadConfig.config
                asked == {n \in DOMAIN config : Contains(n, "/")}
            IN  \E order \in Orders(DOMAIN config), answers \in [asked -> CheckNets] :
                    Apply(main(args, order, answers))
       ELSE Apply(main(args, <<>>, <<>>))

MainNext == \E args \in ArgLists : Main(args)

MainSpec == MainInit /\ [][MainNext]_vars

----------------------------------------------------------------------------
(* Two invocations at the same time *)

\* An add or a remove is a loadConfig call, a change of the map it returned,
\* and a saveConfig call of that map; nothing keeps another process from
\* running between the two calls. procs.inv[p] is invocation p: its command
\* line, where it stands ("start", "loaded": between its two calls, "done"),
\* the map it loaded, the map it is to save and the message it printed;
\* procs.steps lists the calls made so far, in order.
Invocation(cmd, name, version, pc, loaded, config, msg) ==
    [cmd |-> cmd, name |-> name, version |-> version, pc |-> pc,
     loaded |-> loaded, config |-> config, msg |-> msg]
Invocations ==
    {Invocation("add", n, v, "start", EmptyConfig, EmptyConfig, "") :
        n \in {<<"a">>, <<"a", "/", "c">>}, v \in RecordedVersions}
    \cup {Invocation("remove", n, <<>>, "start", EmptyConfig, EmptyConfig, "") :
             n \in {<<"a">>, <<"a", "/", "c">>}}
Step(p, op) == [p |-> p, op |-> op]

\* The change an invocation makes to the map it loaded.
Change(i, config) ==
    IF i.cmd = "add" THEN Upsert(config, i.name, i.version) ELSE Delete(config, i.name)

\* a save of the change applied to the file as it is at the time of the save
ToSaveFresh(p) == Change(procs.inv[p], loadConfig.config)

\* The map invocation p hands to saveConfig: the one it loaded, changed.
ToSave(p) == procs.inv[p].config

ConcInit ==
    /\ file \in {[exists |-> FALSE, data |-> <<>>]}
                \cup {[exists |-> TRUE, data |-> Marshal(c)] : c \in Configs}
    /\ mode = "rw"
    /\ dir = "ok"
    /\ out = NoOut
    /\ hist = NoHist
    /\ call = NoCall
    /\ res = Pending
    /\ procs \in [inv : [{1, 2} -> Invocations], steps : {<<>>}]

\* config, err := loadConfig(), and what the handler does before it saves
PLoad(p) ==
    LET i == procs.inv[p]
        l == loadConfig
        next == IF l.err # "nil"
                THEN [i EXCEPT !.pc = "done", !.msg = "Could not load configuration"]
                ELSE IF i.cmd = "remove" /\ i.name \notin DOMAIN l.config
                THEN [i EXCEPT !.pc = "done", !.loaded = l.config, !.msg = "not found"]
                ELSE [i EXCEPT !.pc = "loaded", !.loaded = l.config,
                               !.config = Change(i, l.config)]
    IN  /\ i.pc = "start"
        /\ procs' = [inv |-> [procs.inv EXCEPT ![p] = next],
                     steps |-> Append(procs.steps, Step(p, "load"))]
        /\ UNCHANGED <<file, mode, dir, out, hist, call, res>>

\* err = saveConfig(config), and the message that follows it
PSave(p) ==
    LET i == procs.inv[p]
        s == saveConfig(ToSave(p))
        msg == IF s.err # "nil" THEN "Could not save configuration"
               ELSE IF i.cmd = "remove" THEN "removed"
               ELSE IF i.name \in DOMAIN i.loaded THEN "updated" ELSE "added"
    IN  /\ i.pc = "loaded"
        /\ file' = s.file
        /\ mode' = s.mode
        /\ procs' = [inv |-> [procs.inv EXCEPT ![p] = [i EXCEPT !.pc = "done", !.msg = msg]],
                     steps |-> Append(procs.steps,
                                      Step(p, IF s.err = "nil" THEN "save" ELSE "save failed"))]
        /\ UNCHANGED <<dir, out, hist, call, res>>

ConcNext == \E p \in {1, 2} : PLoad(p) \/ PSave(p)

ConcSpec == ConcInit /\ [][ConcNext]_vars

----------------------------------------------------------------------------
(* Release Lookup: properties *)

\* The call has returned.
Returned == res # Pending

\* A request was sent and the network answered it with a response.
Answered == Returned /\ res.sent # <<>> /\ call.net.transport = "ok"

InParts(e, p) == \E i \in 1..Len(e.parts) : e.parts[i] = p

\* What a body says, read off the token positions: a body is a complete object
\* when it opens with "{" and ends with "}", and the value of a key is the
\* token two places after the last occurrence of the key.
IsCompleteObject(body) ==
    Len(body) >= 2 /\ body[1].t = "{" /\ body[Len(body)].t = "}"
ValuesAt(body, k) ==
    {i + 2 : i \in {j \in 1..(Len(body) - 2) : body[j] = TokStr(k) /\ body[j + 1].t = ":"}}
FieldValue(body, k) ==
    IF ValuesAt(body, k) = {} THEN <<>>
    ELSE LET i == CHOOSE x \in ValuesAt(body, k) : \A y \in ValuesAt(body, k) : y <= x
         IN  IF body[i].t = "str" THEN body[i].s ELSE <<>>
ParsesAs(body, fields) ==
    /\ IsCompleteObject(body)
    /\ \A k \in fields : \A i \in ValuesAt(body, k) : body[i].t # "num"

\* C1: an identifier without '/' is refused with "invalid application
\* identifier" and no request is sent, whatever apiBase is.
C1_NoSlashIsInvalid ==
    (Returned /\ ~Contains(call.id, "/")) =>
        /\ res.err.kind = "invalid application identifier"
        /\ res.err.id = call.id
        /\ res.version = <<>>
        /\ res.sent = <<>>

C1_Witness ==
    /\ Returned
    /\ ~Contains(call.id, "/")
    /\ call.id # <<>>
    /\ call.apiBase = ":"
    /\ call.net.transport = "ok"
    /\ res.sent = <<>>

\* C2: an identifier whose number of '/' is not exactly one is refused as
\* invalid before any request is sent.
C2_ExactlyOneSlashRequired ==
    (Returned /\ Count(call.id, "/") # 1) =>
        /\ res.err.kind = "invalid application identifier"
        /\ res.sent = <<>>

\* C3: a 200 response whose body parses with a non-empty tag_name t succeeds
\* with t less one leading "v" if it has one, and with t otherwise.
C3_OneLeadingVTrimmed ==
    LET t == FieldValue(call.net.body, TagNameKey)
    IN  (/\ Answered
         /\ call.net.status = 200
         /\ ParsesAs(call.net.body, GitHubReleaseInfo)
         /\ t # <<>>) =>
            /\ res.err = NoErr
            /\ res.version = IF t[1] = "v" THEN SubSeq(t, 2, Len(t)) ELSE t
            /\ (t = <<"v", "v", "1">> => res.version = <<"v", "1">>)

C3_Witness ==
    /\ Answered
    /\ call.net.status = 200
    /\ ParsesAs(call.net.body, GitHubReleaseInfo)
    /\ FieldValue(call.net.body, TagNameKey) = <<"v", "v", "1">>
    /\ res.version = <<"v", "1">>

\* C4: a response whose status is not 200 is an API error and never a
\* version; the message holds the status and the identifier, and either the
\* upstream message (with the documentation URL when that is non-empty) or,
\* when the body has no usable message, the request URL.
C4_Non200IsAPIError ==
    LET msg == FieldValue(call.net.body, MessageKey)
        doc == FieldValue(call.net.body, DocumentationURLKey)
    IN  (Answered /\ call.net.status # 200) =>
            /\ res.version = <<>>
            /\ res.err.kind = "GitHub API error"
            /\ InParts(res.err, "status") /\ res.err.status = call.net.status
            /\ InParts(res.err, "id") /\ res.err.id = call.id
            /\ IF ParsesAs(call.net.body, ghError) /\ msg # <<>>
               THEN /\ InParts(res.err, "msg") /\ res.err.msg = msg
                    /\ ~InParts(res.err, "url")
                    /\ InParts(res.err, "doc") <=> doc # <<>>
                    /\ res.err.doc = doc
               ELSE /\ InParts(res.err, "url") /\ res.err.url = res.sent[1]
                    /\ ~InParts(res.err, "msg") /\ ~InParts(res.err, "doc")

C4_Witness ==
    /\ Answered
    /\ call.net.status = 201
    /\ ParsesAs(call.net.body, GitHubReleaseInfo)
    /\ FieldValue(call.net.body, TagNameKey) = <<"1">>
    /\ FieldValue(call.net.body, MessageKey) = <<"n">>
    /\ res.err.kind = "GitHub API error"

\* C5: on a 200 response a body that does not parse is a decode error, a body
\* that parses without a tag name is the "no version tag" error (with the
\* request URL), and only a body with a tag name succeeds.
C5_DecodeBeforeTagCheck ==
    LET t == FieldValue(call.net.body, TagNameKey)
        parses == ParsesAs(call.net.body, GitHubReleaseInfo)
    IN  (Answered /\ call.net.status = 200) =>
            /\ ~parses => res.err.kind = "error decoding JSON response"
            /\ (parses /\ t = <<>>) =>
                   /\ res.err.kind = "no version tag (tag_name) found"
                   /\ InParts(res.err, "url") /\ res.err.url = res.sent[1]
            /\ (parses /\ t # <<>>) => res.err = NoErr
            /\ res.err.kind # "GitHub API error"
            /\ res.err # NoErr => res.version = <<>>

C5_Witness ==
    /\ Answered
    /\ call.net.status = 200
    /\ ParsesAs(call.net.body, GitHubReleaseInfo)
    /\ FieldValue(call.net.body, NameKey) = <<"1">>
    /\ ValuesAt(call.net.body, TagNameKey) = {}
    /\ res.err.kind = "no version tag (tag_name) found"

----------------------------------------------------------------------------
(* Version Store: properties *)

\* The mapping the backing file holds.
Persisted(f) == Unmarshal(f.data).config

\* C7: a successful saveConfig(m) followed by loadConfig(), with nothing
\* else touching the file in between, returns m and no error.
C7_SaveLoadRoundTrip ==
    (hist.saved /\ hist.loaded) => hist.ret = Loaded(hist.m, FALSE, "nil")

C7_Witness ==
    /\ hist.saved
    /\ hist.loaded
    /\ hist.ret.config = hist.m
    /\ Cardinality(DOMAIN hist.m) = 2
    /\ <<"c", "/", "\"">> \in DOMAIN hist.m
    /\ hist.m[<<"c", "/", "\"">>] = <<"v", "\"", "\\">>

\* C8: loadConfig() on a missing file returns an empty mapping and no error
\* and leaves the file missing; the file comes into existence only when an
\* add saves it (or when it is put there from outside).
C8_LoadOfMissingFile ==
    [][/\ (~file.exists /\ out'.cmd = "load") =>
              /\ out'.ret = Loaded(EmptyConfig, FALSE, "nil")
              /\ ~file'.exists
       /\ (~file.exists /\ file'.exists) =>
              \/ out'.cmd = "edit"
              \/ out'.cmd = "add" /\ out'.msg = "added"]_vars

C8_Witness ==
    /\ out.cmd = "load"
    /\ ~file.exists
    /\ dir = "blocked"
    /\ out.ret = Loaded(EmptyConfig, FALSE, "nil")

\* C9: loadConfig() on a file that is there but cannot be read returns a
\* read error, on a file that cannot be parsed a parse error, and in both
\* cases a nil mapping; an error never comes with a mapping.
C9_LoadFailureHasNoMapping ==
    out.cmd = "load" =>
        /\ (file.exists /\ mode = "none") =>
               out.ret = Loaded(EmptyConfig, TRUE, "could not read config file")
        /\ (file.exists /\ mode # "none" /\ file.data \in InvalidTexts) =>
               out.ret = Loaded(EmptyConfig, TRUE, "could not parse config file")
        /\ out.ret.err # "nil" => out.ret.isNil /\ out.ret.config = EmptyConfig

C9_Witness ==
    /\ out.cmd = "load"
    /\ file.exists
    /\ mode = "ro"
    /\ file.data = <<"a", " ", "=", " ", "\"", "1", "\"", "\n", "a", " ", "=", " ", "\"", "2", "\"", "\n">>
    /\ out.ret.err = "could not parse config file"

\* C10: a successful add of name and version to a loadable store S leaves a
\* persisted store that maps name to version and every other name as S did,
\* one entry larger than S if name is new and as large otherwise; it reports
\* "added" when name is new and "updated" from the old version otherwise.
C10_AddIsUpsert ==
    [][(out'.cmd = "add" /\ out'.msg \in {"added", "updated"}) =>
          LET S == loadConfig.config
              P == Persisted(file')
              n == out'.name
          IN  /\ loadConfig.err = "nil"
              /\ file'.exists /\ Unmarshal(file'.data).ok
              /\ DOMAIN P = DOMAIN S \cup {n}
              /\ P[n] = out'.version
              /\ \A k \in DOMAIN S \ {n} : P[k] = S[k]
              /\ Cardinality(DOMAIN P) =
                     Cardinality(DOMAIN S) + (IF n \in DOMAIN S THEN 0 ELSE 1)
              /\ out'.msg = "added" <=> n \notin DOMAIN S
              /\ out'.msg = "updated" => out'.old = S[n] /\ out'.err = "nil"]_vars

C10_Witness ==
    /\ out.cmd = "add"
    /\ out.msg = "updated"
    /\ out.old # out.version
    /\ file.exists
    /\ Cardinality(DOMAIN Persisted(file)) = 2
    /\ Persisted(file)[out.name] = out.version

\* C11: a successful remove of a name that a loadable store S tracks leaves
\* a persisted store without the name, mapping every other name as S did;
\* "removed" is reported only for a name that S tracked.
C11_RemoveDeletes ==
    [][(out'.cmd = "remove" /\ out'.msg = "removed") =>
          LET S == loadConfig.config
              P == Persisted(file')
              n == out'.name
          IN  /\ loadConfig.err = "nil"
              /\ n \in DOMAIN S
              /\ file'.exists /\ Unmarshal(file'.data).ok
              /\ n \notin DOMAIN P
              /\ DOMAIN P = DOMAIN S \ {n}
              /\ \A k \in DOMAIN S \ {n} : P[k] = S[k]]_vars

C11_Witness ==
    /\ out.cmd = "remove"
    /\ out.msg = "removed"
    /\ out.name = <<"a", "/", "c">>
    /\ file.exists
    /\ DOMAIN Persisted(file) = {<<"c", "/", "\"">>}
    /\ Persisted(file)[<<"c", "/", "\"">>] = <<"v", "\"", "\\">>

\* C12: a remove of a name that a loadable store does not track reports
\* "not found", calls saveConfig not once and leaves the backing file as it
\* was: the same text and mode, and no file where there was none.
C12_RemoveOfUntrackedIsNoOp ==
    [][(/\ out'.cmd = "remove"
        /\ loadConfig.err = "nil"
        /\ out'.name \notin DOMAIN loadConfig.config) =>
          /\ out'.msg = "not found"
          /\ out'.saves = 0
          /\ file' = file
          /\ mode' = mode]_vars

C12_Witness ==
    /\ out.cmd = "remove"
    /\ out.msg = "not found"
    /\ out.saves = 0
    /\ ~file.exists
    /\ dir = "ok"

----------------------------------------------------------------------------
(* Check and command line: properties *)

\* s comes before t in the order of a dictionary over byte values.
RECURSIVE LexBefore(_, _)
LexBefore(s, t) ==
    IF t = <<>> THEN FALSE
    ELSE IF s = <<>> THEN TRUE
    ELSE IF Head(s) = Head(t) THEN LexBefore(Tail(s), Tail(t))
    ELSE Code(Head(s)) < Code(Head(t))

CheckVerdicts == {"Up to date", "Update Available!", "Version discrepancy"}
CheckedAll == out.cmd = "check" /\ out.msg = "Checking all managed applications"
ReportedNames == {out.report[i].name : i \in 1..Len(out.report)}
LinesOf(n) == {i \in 1..Len(out.report) : out.report[i].name = n}

\* C13: a line of a check whose lookup succeeded compares the recorded
\* version with the latest one and carries one verdict, decided by the
\* dictionary order of the two strings: "Up to date" iff they are equal,
\* "Update Available!" iff the latest is the greater, "Version discrepancy"
\* iff it is the smaller. The order is not numeric: recorded "2" with latest
\* "10" is a discrepancy.
C13_VerdictIsLexicographic ==
    out.cmd = "check" =>
        \A i \in 1..Len(out.report) :
            LET e == out.report[i]
            IN  (e.outcome # "skipped" /\ e.err = NoErr) =>
                    /\ e.version = Persisted(file)[e.name]
                    /\ e.outcome \in CheckVerdicts
                    /\ e.outcome = "Up to date" <=> e.latest = e.version
                    /\ e.outcome = "Update Available!" <=> LexBefore(e.version, e.latest)
                    /\ e.outcome = "Version discrepancy" <=> LexBefore(e.latest, e.version)
                    /\ (e.version = <<"2">> /\ e.latest = <<"1", "0">>) =>
                           e.outcome = "Version discrepancy"

C13_Witness ==
    /\ out.cmd = "check"
    /\ \E i \in 1..Len(out.report) :
           /\ out.report[i].version = <<"2">>
           /\ out.report[i].latest = <<"1", "0">>
           /\ out.report[i].outcome = "Version discrepancy"

\* C14: a check skips a tracked name without '/' and never calls the lookup
\* for it; a check of all names skips only such names: every name with a '/'
\* is looked up once and gets a line that is not a skip.
C14_NoSlashIsSkipped ==
    out.cmd = "check" =>
        /\ \A i \in 1..Len(out.report) :
               ~Contains(out.report[i].name, "/") => out.report[i].outcome = "skipped"
        /\ \A j \in 1..Len(out.lookups) : Contains(out.lookups[j], "/")
        /\ CheckedAll =>
               \A n \in DOMAIN Persisted(file) :
                   IF Contains(n, "/")
                   THEN /\ Cardinality({j \in 1..Len(out.lookups) : out.lookups[j] = n}) = 1
                        /\ \E i \in LinesOf(n) : out.report[i].outcome # "skipped"
                   ELSE \E i \in LinesOf(n) : out.report[i].outcome = "skipped"

C14_Witness ==
    /\ CheckedAll
    /\ Len(out.report) = 2
    /\ out.report[1].name = <<"a">>
    /\ out.report[1].outcome = "skipped"
    /\ out.report[2].outcome = "Update Available!"
    /\ out.lookups = <<out.report[2].name>>

\* C15: a check of all names gives every tracked name one line, and one
\* only, with one of the five outcomes, whatever the order of the run and
\* whichever lookups fail; a failed lookup is reported with its error. A
\* check without a name on a loadable store that is not empty is a check of
\* all names.
C15_EveryNameGetsOneOutcome ==
    /\ CheckedAll =>
           /\ Len(out.report) = Cardinality(DOMAIN Persisted(file))
           /\ ReportedNames = DOMAIN Persisted(file)
           /\ \A n \in DOMAIN Persisted(file) : Cardinality(LinesOf(n)) = 1
           /\ \A i \in 1..Len(out.report) :
                  /\ out.report[i].outcome \in CheckVerdicts \cup {"skipped", "failed"}
                  /\ out.report[i].outcome = "failed" <=> out.report[i].err # NoErr
    /\ (/\ out.cmd = "check"
        /\ out.name = <<>>
        /\ loadConfig.err = "nil"
        /\ DOMAIN loadConfig.config # {}) => CheckedAll

C15_Witness ==
    /\ CheckedAll
    /\ Len(out.report) = 2
    /\ out.report[1].outcome = "failed"
    /\ out.report[1].err.kind = "network error fetching release info"
    /\ out.report[2].outcome = "Up to date"

\* C16: list on a loadable store prints one line per tracked name, with the
\* recorded version, in ascending order of the names; what it prints is a
\* function of the store alone. On an empty store it prints the notice "No
\* applications currently managed" and no line.
C16_ListIsSortedAndComplete ==
    (out.cmd = "list" /\ loadConfig.err = "nil") =>
        LET S == loadConfig.config
            r == out.report
        IN  /\ Len(r) = Cardinality(DOMAIN S)
            /\ \A n \in DOMAIN S :
                   /\ Cardinality(LinesOf(n)) = 1
                   /\ \A i \in LinesOf(n) : r[i].version = S[n]
            /\ \A i, j \in 1..Len(r) : i < j => LexBefore(r[i].name, r[j].name)
            /\ DOMAIN S = {} <=> out.msg = "No applications currently managed"

C16_Witness ==
    /\ out.cmd = "list"
    /\ Len(out.report) = 2
    /\ out.report[1] = [name |-> <<"a">>, version |-> <<"2">>]
    /\ out.report[2] = [name |-> <<"a", "/", "c">>, version |-> <<"1">>]
    /\ hist.saved
    /\ hist.m[<<"a">>] = <<"2">>

\* C17: after an add or a remove every key of the persisted store is a
\* non-empty string, and the file holds one line per key.
C17_KeysNonEmptyAndDistinct ==
    (out.cmd \in {"add", "remove"} /\ file.exists /\ Unmarshal(file.data).ok) =>
        /\ \A k \in DOMAIN Persisted(file) : k # <<>>
        /\ out.saves = 1 /\ out.err = "nil" =>
               Count(file.data, "\n") = Cardinality(DOMAIN Persisted(file))

\* The first argument after the subcommand has the form of a flag.
LeadingFlag(a) == Len(a) >= 2 /\ Len(a[2]) >= 2 /\ a[2][1] = "-"
HandlerOf(w) ==
    CASE w = AddWord -> "add"
      [] w = RemoveWord -> "remove"
      [] w = ListWord -> "list"
      [] w = CheckWord -> "check"
      [] OTHER -> "usage"

SaveFails == dir = "blocked" \/ (file.exists /\ mode # "rw")

\* C20: an add or a remove whose loadConfig fails reports the load error,
\* calls saveConfig not once and leaves the file as it was; one whose
\* saveConfig fails reports the save error and no success message.
C20_LoadAndSaveFailuresAbort ==
    [][out'.cmd \in {"add", "remove"} =>
          /\ loadConfig.err # "nil" =>
                 /\ out'.msg = "Could not load configuration"
                 /\ out'.err = loadConfig.err
                 /\ out'.saves = 0
                 /\ file' = file /\ mode' = mode
          /\ (out'.saves = 1 /\ SaveFails) =>
                 /\ out'.msg = "Could not save configuration"
                 /\ out'.err \in {"could not create config directory",
                                  "could not write configuration to file"}
                 /\ file' = file
          /\ out'.msg \in {"added", "updated", "removed"} =>
                 loadConfig.err = "nil" /\ ~SaveFails]_vars

C20_Witness ==
    /\ out.cmd = "add"
    /\ out.msg = "Could not load configuration"
    /\ out.err = "could not parse config file"
    /\ mode = "rw"
    /\ file.data \in InvalidTexts

----------------------------------------------------------------------------
(* Two invocations at the same time: properties *)

BothDone == procs.inv # <<>> /\ \A p \in {1, 2} : procs.inv[p].pc = "done"
Saves == {k \in 1..Len(procs.steps) : procs.steps[k].op = "save"}
LastSaver == procs.steps[CHOOSE k \in Saves : \A j \in Saves : j <= k].p

\* C18: when two adds or removes have run at the same time and both are
\* done, the file holds the whole map of the save that ran last, which is the
\* map that invocation loaded with its own change made to it and nothing
\* else; in the order load 1, load 2, save 1, save 2 both loaded the same
\* map, and the file holds that map with the change of 2 only.
C18_LastWriterWins ==
    (BothDone /\ Saves # {}) =>
        LET w == procs.inv[LastSaver]
        IN  /\ file = [exists |-> TRUE, data |-> Marshal(Change(w, w.loaded))]
            /\ procs.steps = <<Step(1, "load"), Step(2, "load"),
                               Step(1, "save"), Step(2, "save")>> =>
                   /\ procs.inv[1].loaded = procs.inv[2].loaded
                   /\ Persisted(file) = Change(procs.inv[2], procs.inv[1].loaded)

C18_Witness ==
    /\ BothDone
    /\ procs.steps = <<Step(1, "load"), Step(2, "load"), Step(1, "save"), Step(2, "save")>>
    /\ procs.inv[1].msg = "added"
    /\ procs.inv[1].name = <<"a">>
    /\ procs.inv[2].msg = "added"
    /\ procs.inv[2].name = <<"a", "/", "c">>
    /\ DOMAIN Persisted(file) = {<<"a", "/", "c">>}

----------------------------------------------------------------------------
(* Check of one name, lookup result, read-only commands: properties *)

\* C21: "check name" for a name that is not a key of a loadable store that
\* is not empty reports "not found in your managed list" and calls the
\* lookup not once; every identifier a check looks up is a key of the store.
C21_CheckOfUntrackedNameIsNotFound ==
    (out.cmd = "check" /\ loadConfig.err = "nil") =>
        /\ (/\ Len(out.args) = 2
            /\ DOMAIN loadConfig.config # {}
            /\ out.args[2] \notin DOMAIN loadConfig.config) =>
               /\ out.msg = "not found in your managed list"
               /\ out.lookups = <<>>
        /\ \A j \in 1..Len(out.lookups) : out.lookups[j] \in DOMAIN loadConfig.config

\* C22: a lookup that returns no error returns a version that is not the
\* empty string, also for a release whose tag_name is "v".
C22_SuccessHasVersion ==
    (Returned /\ res.err = NoErr) => res.version # <<>>

\* C23: list and check only read: whatever the store, the order of the run
\* and the answers of the network, a list or a check calls saveConfig not
\* once and leaves the backing file, its mode and with them every recorded
\* version as they were; a version a check fetched is printed, not stored.
C23_ListAndCheckAreReadOnly ==
    [][out'.cmd \in {"list", "check"} =>
          /\ out'.saves = 0
          /\ file' = file
          /\ mode' = mode
          /\ dir' = dir
          /\ \A i \in 1..Len(out'.report) :
                 (out'.cmd = "check" /\ file'.exists) =>
                     Persisted(file')[out'.report[i].name] = out'.report[i].version]_vars

C23_Witness ==
    /\ out.cmd = "check"
    /\ out.saves = 0
    /\ mode = "rw"
    /\ Len(out.report) = 2
    /\ out.report[1].outcome = "Update Available!"
    /\ out.report[2].outcome = "failed"
    /\ Persisted(file)[out.report[1].name] = <<"1">>
    /\ out.report[1].latest = <<"2">>

====
